---- MODULE Spec2Model ----
(***************************************************************************)
(* Model of src/lib/outlierFilter.ts: filterOutliers, the single forward   *)
(* pass that splits a reading sequence into validReadings and outliers,    *)
(* and filterMultipleSensorOutliers, which calls it once per entry; and of *)
(* the time windows that useMultipleSensorReadings builds for a fetch.     *)
(*                                                                         *)
(* Numbers.  Reading values are integers.  A quotient is kept exact as a   *)
(* fraction [num, den]; den = 0 stands for the IEEE-754 results of a       *)
(* division by zero: num # 0 is +/-Infinity, num = 0 is NaN.               *)
(* Sequences are 1-based here; the code's index i (0-based, the next       *)
(* element to process) equals the number of readings already processed.    *)
(* The arrays hold references to SensorReading objects; the identity of    *)
(* such an object is the field obj, its position in the input.             *)
(* An input is the sequence of one sensor (one sensorType and model), with *)
(* timestamps in ascending order as the caller sorts them, or in           *)
(* descending order, which the filter does not check.                      *)
(***************************************************************************)
EXTENDS Integers, Sequences, FiniteSets, TLC

\* ---- bounds of the model ------------------------------------------------
MaxLen == 3
MaxVal == 4

Values == (0 - MaxVal)..MaxVal
Sensors ==
  { [sensorType |-> "temp",     model |-> "DHT11"],
    [sensorType |-> "humidity", model |-> "BME280"] }
Orders == {"ascending", "descending"}
StationNames == {"Station A", "Unknown"}

\* filterOutliers: its arguments, its position and its locals
VARIABLES readings, stationName, pc, i, validReadings, outliers
\* filterMultipleSensorOutliers: its arguments, its loop index and its locals
VARIABLES data, stationNames, item, filteredData, allOutliers
\* useMultipleSensorReadings: the range of the fetch and its windows
VARIABLES since, endTime, intervalSeconds, timestamp, timeWindows
\* useMultipleSensorReadings: the requested sensors, the relay, the batch loop
VARIABLES sensors, relay, batchIndex, inFlight, windowIndex, sampledReadings,
          grouped
\* comparisonStore: which loadComparisons is in use, localStorage, the state
\* of useComparisons, the ids handed out by crypto.randomUUID(), and the
\* store function called last
VARIABLES impl, localStorage, comparisons, uuid, lastCall

callerVars == <<data, stationNames, item, filteredData, allOutliers>>
fetchVars == <<since, endTime, intervalSeconds, timestamp, timeWindows>>
queryVars == <<sensors, relay, batchIndex, inFlight, windowIndex,
              sampledReadings, grouped>>
storeVars == <<impl, localStorage, comparisons, uuid, lastCall>>
vars == <<readings, stationName, pc, i, validReadings, outliers,
          callerVars, fetchVars, queryVars, storeVars>>

\* ---- JavaScript arithmetic on exact fractions ----------------------------
Abs(x) == IF x < 0 THEN 0 - x ELSE x

\* a guarded division that yields 0 instead of dividing by zero
DivZeroSafe(a, b) == IF b = 0 THEN [num |-> 0, den |-> 1] ELSE [num |-> a, den |-> b]

\* a / b
Div(a, b) == [num |-> a, den |-> b]

\* the absolute value taken of the dividend only
MathAbsNumerator(q) == [num |-> Abs(q.num), den |-> q.den]

\* the absolute value forgotten
MathAbsMissing(q) == q

\* Math.abs(q)
MathAbs(q) == [num |-> Abs(q.num), den |-> Abs(q.den)]

\* q * k for a finite positive k
Times(q, k) == [num |-> q.num * k, den |-> q.den]

\* !(q <= k): true for NaN
NotLessOrEqual(q, k) ==
  IF q.den = 0 THEN q.num >= 0
  ELSE IF q.den > 0 THEN q.num > k * q.den
  ELSE q.num < k * q.den

\* q >= k
GreaterOrEqual(q, k) ==
  IF q.den = 0 THEN q.num > 0
  ELSE IF q.den > 0 THEN q.num >= k * q.den
  ELSE q.num =< k * q.den

\* q > k; false for NaN and -Infinity, true for +Infinity
GreaterThan(q, k) ==
  IF q.den = 0 THEN q.num > 0
  ELSE IF q.den > 0 THEN q.num > k * q.den
  ELSE q.num < k * q.den

\* ---- filterOutliers ------------------------------------------------------
\* the threshold set a hundred too high
ThresholdRaised == 300 + 100

Threshold == 300

\* the first reading kept as the reference throughout
PreviousFirst(k) == readings[1]

\* the last accepted reading taken as the reference
PreviousAccepted(k) == validReadings[Len(validReadings)]

\* const previous = readings[i - 1]   (k is the code's i, 0-based)
Previous(k) == readings[k]

\* const current = readings[i]
Current(k) == readings[k + 1]

\* the change taken relative to the reading itself
PercentChangeOfCurrent(current, previous) ==
  Times(MathAbs(Div(current.value - previous.value, current.value)), 100)

\* Math.abs((current.value - previous.value) / previous.value) * 100
PercentChange(current, previous) ==
  Times(MathAbs(Div(current.value - previous.value, previous.value)), 100)

\* if (percentChange >= 300)
IsOutlierInclusive(percentChange) == GreaterOrEqual(percentChange, Threshold)

\* if (percentChange > 300)
IsOutlier(percentChange) == GreaterThan(percentChange, Threshold)

\* timestamp taken from the reading compared against
OutlierInfoPreviousTimestamp(current, previous, percentChange, name) ==
  [ timestamp     |-> previous.timestamp,
    value         |-> current.value,
    previousValue |-> previous.value,
    percentChange |-> percentChange,
    sensorType    |-> current.sensorType,
    sensorModel   |-> current.model,
    stationName   |-> name ]

\* previousValue taken from the rejected reading itself
OutlierInfoOwnValue(current, previous, percentChange, name) ==
  [ timestamp     |-> current.timestamp,
    value         |-> current.value,
    previousValue |-> current.value,
    percentChange |-> percentChange,
    sensorType    |-> current.sensorType,
    sensorModel   |-> current.model,
    stationName   |-> name ]

\* the object pushed onto outliers
OutlierInfo(current, previous, percentChange, name) ==
  [ timestamp     |-> current.timestamp,
    value         |-> current.value,
    previousValue |-> previous.value,
    percentChange |-> percentChange,
    sensorType    |-> current.sensorType,
    sensorModel   |-> current.model,
    stationName   |-> name ]

\* the first reading pushed only when its value is truthy
PushFirstIfTruthy(valid, rs) == IF rs[1].value = 0 THEN valid ELSE Append(valid, rs[1])

\* validReadings.push(readings[0])
PushFirst(valid, rs) == Append(valid, rs[1])

\* the accepted reading is not kept
PushValidDropped(valid, current) == valid

\* validReadings.push(current)
PushValid(valid, current) == Append(valid, current)

\* outliers.unshift({...})
PushOutlierFront(outs, info) == <<info>> \o outs

\* outliers.push({...})
PushOutlier(outs, info) == Append(outs, info)

\* timestamp of the k-th of n readings
Timestamp(order, n, k) == IF order = "ascending" THEN k - 1 ELSE n - k

MkReading(s, t, v, k) ==
  [ timestamp |-> t, value |-> v, sensorType |-> s.sensorType,
    model |-> s.model, obj |-> k ]

\* no fan-out is running
CallerIdle ==
  /\ data = <<>>
  /\ stationNames = <<>>
  /\ item = 0
  /\ filteredData = <<>>
  /\ allOutliers = <<>>

\* no fetch is running
FetchIdle ==
  /\ since = 0
  /\ endTime = 0
  /\ intervalSeconds = 0
  /\ timestamp = 0
  /\ timeWindows = <<>>

\* no batch of queries is running
QueryIdle ==
  /\ sensors = <<>>
  /\ relay = ""
  /\ batchIndex = 0
  /\ inFlight = 0
  /\ windowIndex = 0
  /\ sampledReadings = <<>>
  /\ grouped = <<>>

\* the store is not in use
StoreIdle ==
  /\ impl = ""
  /\ localStorage = <<>>
  /\ comparisons = <<>>
  /\ uuid = 0
  /\ lastCall = ""

Init ==
  /\ \E n \in 0..MaxLen :
       \E vs \in [1..n -> Values], s \in Sensors, o \in Orders :
         readings = [k \in 1..n |-> MkReading(s, Timestamp(o, n, k), vs[k], k)]
  /\ stationName \in StationNames
  /\ pc = "start"
  /\ i = 0
  /\ validReadings = <<>>
  /\ outliers = <<>>
  /\ CallerIdle
  /\ FetchIdle
  /\ QueryIdle
  /\ StoreIdle

\* the early return missing: readings[0], undefined, is pushed
ReturnWithoutGuard ==
  /\ pc = "start"
  /\ Len(readings) = 0
  /\ pc' = "done"
  /\ validReadings' = <<"undefined">>
  /\ outliers' = <<>>
  /\ UNCHANGED <<readings, stationName, i>>
  /\ UNCHANGED <<callerVars, fetchVars, queryVars, storeVars>>

\* if (readings.length === 0) return { validReadings: [], outliers: [] }
ReturnEmpty ==
  /\ pc = "start"
  /\ Len(readings) = 0
  /\ pc' = "done"
  /\ validReadings' = <<>>
  /\ outliers' = <<>>
  /\ UNCHANGED <<readings, stationName, i>>
  /\ UNCHANGED <<callerVars, fetchVars, queryVars, storeVars>>

\* the accumulator is an array kept at module level and never cleared: the
\* call goes on with the list the previous call returned
AcceptFirstRetained ==
  /\ pc = "start"
  /\ Len(readings) # 0
  /\ validReadings' =
       PushFirst(IF item > 0 /\ item =< Len(filteredData)
                 THEN filteredData[item].readings ELSE <<>>, readings)
  /\ outliers' = <<>>
  /\ i' = 1
  /\ pc' = "loop"
  /\ UNCHANGED <<readings, stationName>>
  /\ UNCHANGED <<callerVars, fetchVars, queryVars, storeVars>>

\* the first reading is taken with readings.shift()
AcceptFirstShift ==
  /\ pc = "start"
  /\ Len(readings) # 0
  /\ validReadings' = PushFirst(<<>>, readings)
  /\ readings' = Tail(readings)
  /\ outliers' = <<>>
  /\ i' = 1
  /\ pc' = "loop"
  /\ UNCHANGED <<stationName, callerVars, fetchVars, queryVars, storeVars>>

\* the first reading is pushed and the loop starts at i = 1
AcceptFirst ==
  /\ pc = "start"
  /\ Len(readings) # 0
  /\ validReadings' = PushFirst(<<>>, readings)
  /\ outliers' = <<>>
  /\ i' = 1
  /\ pc' = "loop"
  /\ UNCHANGED <<readings, stationName>>
  /\ UNCHANGED <<callerVars, fetchVars, queryVars, storeVars>>

\* one iteration of the for loop, then-branch
RejectReading ==
  /\ pc = "loop"
  /\ i < Len(readings)
  /\ LET current == Current(i)
         previous == Previous(i)
         percentChange == PercentChange(current, previous)
     IN /\ IsOutlier(percentChange)
        /\ outliers' = PushOutlier(outliers,
                         OutlierInfo(current, previous, percentChange, stationName))
  /\ i' = i + 1
  /\ UNCHANGED <<readings, stationName, pc, validReadings>>
  /\ UNCHANGED <<callerVars, fetchVars, queryVars, storeVars>>

\* one iteration of the for loop, else-branch
AcceptReading ==
  /\ pc = "loop"
  /\ i < Len(readings)
  /\ LET current == Current(i)
         previous == Previous(i)
         percentChange == PercentChange(current, previous)
     IN /\ ~IsOutlier(percentChange)
        /\ validReadings' = PushValid(validReadings, current)
  /\ i' = i + 1
  /\ UNCHANGED <<readings, stationName, pc, outliers>>
  /\ UNCHANGED <<callerVars, fetchVars, queryVars, storeVars>>

\* the loop runs one index too far: readings[i] is undefined and reading
\* its value throws
ReturnOffByOne ==
  /\ pc = "loop"
  /\ ~(i < Len(readings))
  /\ pc' = "threw"
  /\ UNCHANGED <<readings, stationName, i, validReadings, outliers>>
  /\ UNCHANGED <<callerVars, fetchVars, queryVars, storeVars>>

\* return { validReadings, outliers }
Return ==
  /\ pc = "loop"
  /\ ~(i < Len(readings))
  /\ pc' = "done"
  /\ UNCHANGED <<readings, stationName, i, validReadings, outliers>>
  /\ UNCHANGED <<callerVars, fetchVars, queryVars, storeVars>>

Next == ReturnEmpty \/ AcceptFirst \/ RejectReading \/ AcceptReading \/ Return

Spec == Init /\ [][Next]_vars

\* ---- the same pass over a mirrored input <<x, x + d, x, x - d>> ----------
InitSym ==
  /\ \E x \in Values \ {0}, d \in Values, s \in Sensors, o \in Orders :
       readings = [k \in 1..4 |->
                     MkReading(s, Timestamp(o, 4, k),
                               CASE k = 2 -> x + d
                                 [] k = 4 -> x - d
                                 [] OTHER -> x,
                               k)]
  /\ stationName \in StationNames
  /\ pc = "start"
  /\ i = 0
  /\ validReadings = <<>>
  /\ outliers = <<>>
  /\ CallerIdle
  /\ FetchIdle
  /\ QueryIdle
  /\ StoreIdle

NextSym == AcceptFirst \/ RejectReading \/ AcceptReading \/ Return

SpecSym == InitSym /\ [][NextSym]_vars

\* ---- the same pass over the values of the documented scenario -----------
ScenarioValues == {10, 11, 12, 50}

InitScenario ==
  /\ \E vs \in [1..4 -> ScenarioValues], s \in Sensors :
       readings = [k \in 1..4 |-> MkReading(s, Timestamp("ascending", 4, k), vs[k], k)]
  /\ stationName \in StationNames
  /\ pc = "start"
  /\ i = 0
  /\ validReadings = <<>>
  /\ outliers = <<>>
  /\ CallerIdle
  /\ FetchIdle
  /\ QueryIdle
  /\ StoreIdle

SpecScenario == InitScenario /\ [][NextSym]_vars

\* ---- filterOutliers as a function of its arguments -----------------------
RECURSIVE FilterFrom(_, _, _, _, _)
\* the for loop from index k on, with the lists accumulated so far
FilterFrom(rs, name, k, valid, outs) ==
  IF ~(k < Len(rs)) THEN [validReadings |-> valid, outliers |-> outs]
  ELSE LET current == rs[k + 1]
           previous == rs[k]
           percentChange == PercentChange(current, previous)
       IN IF IsOutlier(percentChange)
          THEN FilterFrom(rs, name, k + 1, valid,
                 PushOutlier(outs, OutlierInfo(current, previous, percentChange, name)))
          ELSE FilterFrom(rs, name, k + 1, PushValid(valid, current), outs)

filterOutliers(rs, name) ==
  IF Len(rs) = 0 THEN [validReadings |-> <<>>, outliers |-> <<>>]
  ELSE FilterFrom(rs, name, 1, PushFirst(<<>>, rs), <<>>)

\* ---- filterMultipleSensorOutliers ---------------------------------------
MaxItems == 2

SensorIds ==
  { [pubkey |-> "pk1", sensorType |-> "temp",     sensorModel |-> "DHT11"],
    [pubkey |-> "pk2", sensorType |-> "humidity", sensorModel |-> "BME280"] }

\* the values of the reading sequence of one entry
EntryValues == { <<>>, <<1, 1>>, <<0, 1>>, <<0, 1, -3>>, <<1, -3, 1>> }

\* the label maps handed in: no key, one key, both keys, an empty label
LabelMaps ==
  { <<>>,
    ("pk1-temp-DHT11" :> "#1 - temp"),
    ("pk1-temp-DHT11" :> "#1 - temp") @@ ("pk2-humidity-BME280" :> "#2 - humidity"),
    ("pk1-temp-DHT11" :> "") }

MkEntry(sensor, vs, order) ==
  [ sensor |-> sensor,
    readings |-> [k \in 1..Len(vs) |->
                    MkReading([sensorType |-> sensor.sensorType, model |-> sensor.sensorModel],
                              Timestamp(order, Len(vs), k), vs[k], k)] ]

\* `${item.sensor.pubkey}-${item.sensor.sensorType}-${item.sensor.sensorModel}`
SensorKey(sensor) ==
  sensor.pubkey \o "-" \o sensor.sensorType \o "-" \o sensor.sensorModel

\* map[key]; a missing property reads as undefined
Lookup(map, key) == IF key \in DOMAIN map THEN map[key] ELSE "undefined"

\* v || d: undefined and the empty string are falsy
OrElse(v, d) == IF v \in {"undefined", ""} THEN d ELSE v

\* the label without its default
StationNameNoDefault(entry) == Lookup(stationNames, SensorKey(entry.sensor))

\* const stationName = stationNames[sensorKey] || 'Unknown'
StationNameOf(entry) == OrElse(Lookup(stationNames, SensorKey(entry.sensor)), "Unknown")

\* the readings of the first entry handed to every call
ItemReadingsFirst(k) == data[1].readings

\* item.readings of the k-th entry (k is 0-based)
ItemReadings(k) == data[k + 1].readings

\* allOutliers.unshift(...outliers)
PushSpreadFront(all, outs) == outs \o all

\* allOutliers.push(...outliers)
PushSpread(all, outs) == all \o outs

InitMulti ==
  /\ \E n \in 0..MaxItems :
       \E ids \in [1..n -> SensorIds], vss \in [1..n -> EntryValues], o \in Orders :
         data = [k \in 1..n |-> MkEntry(ids[k], vss[k], o)]
  /\ stationNames \in LabelMaps
  /\ item = 0
  /\ filteredData = <<>>
  /\ allOutliers = <<>>
  /\ pc = "for"
  /\ readings = <<>>
  /\ stationName = ""
  /\ i = 0
  /\ validReadings = <<>>
  /\ outliers = <<>>
  /\ FetchIdle
  /\ QueryIdle
  /\ StoreIdle

\* for (const item of data): the label is resolved and filterOutliers called
CallFilter ==
  /\ pc = "for"
  /\ item < Len(data)
  /\ stationName' = StationNameOf(data[item + 1])
  /\ readings' = ItemReadings(item)
  /\ pc' = "start"
  /\ i' = 0
  /\ validReadings' = <<>>
  /\ outliers' = <<>>
  /\ UNCHANGED <<callerVars, fetchVars, queryVars, storeVars>>

\* an entry without valid readings is left out
PushFilteredNonEmpty(filtered, entry, valid) ==
  IF valid = <<>> THEN filtered
  ELSE Append(filtered, [sensor |-> entry.sensor, readings |-> valid])

\* filteredData.push({ sensor: item.sensor, readings: validReadings })
PushFiltered(filtered, entry, valid) ==
  Append(filtered, [sensor |-> entry.sensor, readings |-> valid])

\* filterOutliers has returned: the entry and its outliers are collected
Collect ==
  /\ pc = "done"
  /\ filteredData' = PushFiltered(filteredData, data[item + 1], validReadings)
  /\ allOutliers' = PushSpread(allOutliers, outliers)
  /\ item' = item + 1
  /\ pc' = "for"
  /\ UNCHANGED <<readings, stationName, i, validReadings, outliers>>
  /\ UNCHANGED <<data, stationNames, fetchVars, queryVars, storeVars>>

\* return { filteredData, allOutliers }
ReturnMulti ==
  /\ pc = "for"
  /\ ~(item < Len(data))
  /\ pc' = "returned"
  /\ UNCHANGED <<readings, stationName, i, validReadings, outliers>>
  /\ UNCHANGED <<callerVars, fetchVars, queryVars, storeVars>>

NextMulti ==
  \/ CallFilter
  \/ ReturnEmpty \/ AcceptFirst \/ RejectReading \/ AcceptReading \/ Return
  \/ Collect
  \/ ReturnMulti

SpecMulti == InitMulti /\ [][NextMulti]_vars

\* the calls are not suspended: a call that can take a step takes it
SpecMultiLive == SpecMulti /\ WF_vars(NextMulti)

\* ---- the fan-out over <<e, f, e>>: one call repeated after another -------
InitRepeat ==
  /\ \E ide \in SensorIds, idf \in SensorIds, ve \in EntryValues, vf \in EntryValues,
        o \in Orders :
       data = <<MkEntry(ide, ve, o), MkEntry(idf, vf, o), MkEntry(ide, ve, o)>>
  /\ stationNames \in LabelMaps
  /\ item = 0
  /\ filteredData = <<>>
  /\ allOutliers = <<>>
  /\ pc = "for"
  /\ readings = <<>>
  /\ stationName = ""
  /\ i = 0
  /\ validReadings = <<>>
  /\ outliers = <<>>
  /\ FetchIdle
  /\ QueryIdle
  /\ StoreIdle

SpecRepeat == InitRepeat /\ [][NextMulti]_vars

\* ---- useMultipleSensorReadings: the time windows of a fetch --------------
\* ComparisonView's TIME_RANGES: the length of each range and the interval
\* its description (and the README) announces, in seconds
TIME_RANGES ==
  [ h1  |-> [label |-> "Last Hour",      seconds |-> 60 * 60,      described |-> 60],
    h24 |-> [label |-> "Last 24 Hours",  seconds |-> 24 * 60 * 60, described |-> 15 * 60] ]

\* Math.floor(Date.now() / 1000) when the range is computed
Nows == {1000000, 1000007}

\* timeRangeHours > 2 ? 5 * 60 : 30, with timeRangeHours = (endTime - since) / 3600
IntervalSeconds(s, e) == IF (e - s) > 2 * 3600 THEN 5 * 60 ELSE 30

Min(a, b) == IF a < b THEN a ELSE b

\* no call of filterOutliers is running
FilterIdle ==
  /\ readings = <<>>
  /\ stationName = ""
  /\ i = 0
  /\ validReadings = <<>>
  /\ outliers = <<>>

\* since = now - TIME_RANGES[timeRange].seconds, until = now
InitFetch ==
  /\ \E r \in DOMAIN TIME_RANGES, now \in Nows :
       /\ since = now - TIME_RANGES[r].seconds
       /\ endTime = now
  /\ intervalSeconds = 0
  /\ timestamp = 0
  /\ timeWindows = <<>>
  /\ pc = "fetch"
  /\ FilterIdle
  /\ CallerIdle
  /\ QueryIdle
  /\ StoreIdle

\* the interval is chosen and the loop over the range starts at since
ChooseInterval ==
  /\ pc = "fetch"
  /\ intervalSeconds' = IntervalSeconds(since, endTime)
  /\ timestamp' = since
  /\ pc' = "windows"
  /\ UNCHANGED <<since, endTime, timeWindows>>
  /\ UNCHANGED <<readings, stationName, i, validReadings, outliers, callerVars>>
  /\ UNCHANGED <<queryVars, storeVars>>

\* timeWindows.push({ start: timestamp, end: timestamp + intervalSeconds })
BuildWindowUnclamped ==
  /\ pc = "windows"
  /\ timestamp < endTime
  /\ timeWindows' = Append(timeWindows,
                       [start |-> timestamp, end |-> timestamp + intervalSeconds])
  /\ timestamp' = timestamp + intervalSeconds
  /\ UNCHANGED <<since, endTime, intervalSeconds, pc>>
  /\ UNCHANGED <<readings, stationName, i, validReadings, outliers, callerVars>>
  /\ UNCHANGED <<queryVars, storeVars>>

\* timeWindows.push({ start: timestamp, end: windowEnd })
BuildWindow ==
  /\ pc = "windows"
  /\ timestamp < endTime
  /\ timeWindows' = Append(timeWindows,
                       [start |-> timestamp,
                        end |-> Min(timestamp + intervalSeconds, endTime)])
  /\ timestamp' = timestamp + intervalSeconds
  /\ UNCHANGED <<since, endTime, intervalSeconds, pc>>
  /\ UNCHANGED <<readings, stationName, i, validReadings, outliers, callerVars>>
  /\ UNCHANGED <<queryVars, storeVars>>

\* the loop over the range ends
WindowsBuilt ==
  /\ pc = "windows"
  /\ ~(timestamp < endTime)
  /\ pc' = "built"
  /\ UNCHANGED <<fetchVars, readings, stationName, i, validReadings, outliers, callerVars>>
  /\ UNCHANGED <<queryVars, storeVars>>

NextFetch == ChooseInterval \/ BuildWindow \/ WindowsBuilt

SpecFetch == InitFetch /\ [][NextFetch]_vars

\* ---- comparisonStore: the comparisons kept in localStorage ----------------
\* A stored item is [tag, value]: tag "absent" when getItem returns null,
\* "garbage" for a text JSON.parse rejects, "object" for the text {} and
\* "array" for the JSON text of the array value.  Two loaders exist: the
\* plain one of src/lib/comparisonStore.ts and the versioned one that checks
\* VERSION_KEY.  An undefined property value is the string "undefined".
MaxUuid == 2

CURRENT_VERSION == "2"

Impls == {"plain", "versioned"}

\* the values found under VERSION_KEY: none, that of an older build, current
Versions == {"null", "1", CURRENT_VERSION}

\* what the "Add Sensor" dialog hands to onAdd
SensorInputs ==
  { [stationPubkey |-> "pk1", stationName |-> "Station A",
     sensorModel |-> "PMS5003", sensorTypes |-> <<"pm1", "pm25">>],
    [stationPubkey |-> "pk2", stationName |-> "Unknown Station",
     sensorModel |-> "unknown", sensorTypes |-> <<"temp">>] }

\* updates: Partial<Comparison>
Updates == { [name |-> "Renamed"] }

\* Date.now(), counted in units of 10^6 ms
DateNows == {1700000}

\* a sensor selection as the current build stores it
StoredSensor ==
  [id |-> "s-1", stationPubkey |-> "pk1", stationName |-> "Station A",
   sensorModel |-> "DHT11", sensorTypes |-> <<"temp", "humidity">>]

\* a sensor selection as an older build stored it
OldFormatSensor ==
  [id |-> "s-0", stationPubkey |-> "pk1", stationName |-> "Station A",
   sensorModel |-> "DHT11", sensorType |-> "temp"]

StoredComparison(id, ss) ==
  [id |-> id, name |-> "Stored", sensors |-> ss, createdAt |-> 1600000]

Absent == [tag |-> "absent", value |-> <<>>]

ArrayText(cs) == [tag |-> "array", value |-> cs]

\* the texts found under STORAGE_KEY
StoredItems ==
  { Absent,
    [tag |-> "garbage", value |-> <<>>],
    [tag |-> "object", value |-> <<>>],
    ArrayText(<<>>),
    ArrayText(<<StoredComparison("c-1", <<StoredSensor>>), StoredComparison("c-2", <<>>)>>),
    ArrayText(<<StoredComparison("c-1", <<OldFormatSensor, StoredSensor>>),
                StoredComparison("c-2", <<>>)>>),
    ArrayText(<<[id |-> "c-1", name |-> "Stored"], StoredComparison("c-2", <<StoredSensor>>)>>) }

\* obj.key of a string-valued property; a missing property reads as undefined
Prop(obj, key) == IF key \in DOMAIN obj THEN obj[key] ELSE "undefined"

\* a string, or undefined, used as a condition
Truthy(v) == v \notin {"undefined", ""}

\* the properties of a comparison that hold a string or undefined
StringProps == {"id", "name"}

\* JSON.stringify of an object: a property whose value is undefined is left out
StringifyObject(obj) ==
  [key \in {k \in DOMAIN obj : ~(k \in StringProps /\ obj[k] = "undefined")} |-> obj[key]]

\* JSON.stringify(comparisons)
Stringify(cs) ==
  [k \in 1..Len(cs) |-> StringifyObject(cs[k])]

\* the catch block: the loader returns [] and touches nothing
Caught(ls) == [returned |-> <<>>, storage |-> ls]

\* the old-format check and the sensorTypes check of the plain loader
KeepSensor(sensor) ==
  /\ ~("sensorType" \in DOMAIN sensor /\ "sensorTypes" \notin DOMAIN sensor)
  /\ "sensorTypes" \in DOMAIN sensor

\* loadComparisons of src/lib/comparisonStore.ts
LoadPlain(ls) ==
  LET stored == ls.comparisons
  IN IF stored.tag = "absent" THEN [returned |-> <<>>, storage |-> ls]
     ELSE IF stored.tag = "garbage" THEN Caught(ls)
     ELSE IF stored.tag = "object" THEN Caught(ls)
     ELSE IF \E k \in 1..Len(stored.value) : "sensors" \notin DOMAIN stored.value[k]
          THEN Caught(ls)
     ELSE [returned |->
             [k \in 1..Len(stored.value) |->
                [stored.value[k] EXCEPT !.sensors = SelectSeq(@, KeepSensor)]],
           storage |-> ls]

\* localStorage.removeItem(STORAGE_KEY); localStorage.setItem(VERSION_KEY, CURRENT_VERSION)
Cleared == [comparisons |-> Absent, version |-> CURRENT_VERSION]

\* the validation of the versioned loader
ValidComparison(comparison) ==
  /\ "sensors" \in DOMAIN comparison
  /\ \A k \in 1..Len(comparison.sensors) :
       LET sensor == comparison.sensors[k]
       IN /\ Truthy(Prop(sensor, "id"))
          /\ Truthy(Prop(sensor, "stationPubkey"))
          /\ Truthy(Prop(sensor, "stationName"))
          /\ Truthy(Prop(sensor, "sensorModel"))
          /\ "sensorTypes" \in DOMAIN sensor
          /\ Len(sensor.sensorTypes) > 0

\* the versioned loader writes the filtered list back
LoadVersionedRewrites(ls) ==
  LET stored == ls.comparisons
  IN IF ls.version # CURRENT_VERSION THEN [returned |-> <<>>, storage |-> Cleared]
     ELSE IF stored.tag = "absent" THEN [returned |-> <<>>, storage |-> ls]
     ELSE IF stored.tag \in {"garbage", "object"} THEN [returned |-> <<>>, storage |-> Cleared]
     ELSE [returned |-> SelectSeq(stored.value, ValidComparison),
           storage |-> [ls EXCEPT !.comparisons =
                           ArrayText(SelectSeq(stored.value, ValidComparison))]]

\* loadComparisons of the versioned store
LoadVersioned(ls) ==
  LET stored == ls.comparisons
  IN IF ls.version # CURRENT_VERSION THEN [returned |-> <<>>, storage |-> Cleared]
     ELSE IF stored.tag = "absent" THEN [returned |-> <<>>, storage |-> ls]
     ELSE IF stored.tag \in {"garbage", "object"} THEN [returned |-> <<>>, storage |-> Cleared]
     ELSE [returned |-> SelectSeq(stored.value, ValidComparison), storage |-> ls]

\* loadComparisons(): what it returns and what it leaves in localStorage
loadComparisons(im, ls) == IF im = "plain" THEN LoadPlain(ls) ELSE LoadVersioned(ls)

\* saveComparisons(comparisons)
saveComparisons(im, ls, cs) ==
  IF im = "plain" THEN [ls EXCEPT !.comparisons = ArrayText(Stringify(cs))]
  ELSE [comparisons |-> ArrayText(Stringify(cs)), version |-> CURRENT_VERSION]

\* crypto.randomUUID(): the n-th identifier handed out
RandomUUID(n) == "uuid-" \o ToString(n)

\* comparisons.findIndex(c => c.id === id), 1-based; 0 when there is none
FindIndex(cs, id) ==
  IF \E k \in 1..Len(cs) : Prop(cs[k], "id") = id
  THEN CHOOSE k \in 1..Len(cs) :
         /\ Prop(cs[k], "id") = id
         /\ \A j \in 1..(k - 1) : Prop(cs[j], "id") # id
  ELSE 0

\* { ...comparisons[index], ...updates }
Merged(comparison, updates) == updates @@ comparison

\* the filter keeps the comparison to delete and drops the others
FilteredOnly(cs, id) ==
  SelectSeq(cs, LAMBDA c : Prop(c, "id") = id)

\* comparisons.filter(c => c.id !== id)
Filtered(cs, id) ==
  SelectSeq(cs, LAMBDA c : Prop(c, "id") # id)

\* { ...sensor, id: crypto.randomUUID() }
NewSensor(sensor, id) == [id |-> id] @@ sensor

\* comparison.sensors.unshift(newSensor)
PushSensorFront(list, newSensor) == <<newSensor>> \o list

\* comparison.sensors.push(newSensor)
PushSensor(list, newSensor) == Append(list, newSensor)

\* addComparison(name): what it leaves in localStorage
addComparison(im, ls, name, id, now) ==
  LET l == loadComparisons(im, ls)
      newComparison == [id |-> id, name |-> name, sensors |-> <<>>, createdAt |-> now]
  IN saveComparisons(im, l.storage, Append(l.returned, newComparison))

\* the list is saved whether or not the id was found
updateComparisonAlwaysSaves(im, ls, id, updates) ==
  LET l == loadComparisons(im, ls)
      index == FindIndex(l.returned, id)
  IN saveComparisons(im, l.storage,
       IF index # 0
       THEN [l.returned EXCEPT ![index] = Merged(l.returned[index], updates)]
       ELSE l.returned)

\* updateComparison(id, updates)
updateComparison(im, ls, id, updates) ==
  LET l == loadComparisons(im, ls)
      index == FindIndex(l.returned, id)
  IN IF index # 0
     THEN saveComparisons(im, l.storage,
            [l.returned EXCEPT ![index] = Merged(l.returned[index], updates)])
     ELSE l.storage

\* deleteComparison(id)
deleteComparison(im, ls, id) ==
  LET l == loadComparisons(im, ls)
  IN saveComparisons(im, l.storage, Filtered(l.returned, id))

\* addSensorToComparison(comparisonId, sensor)
addSensorToComparison(im, ls, comparisonId, sensor, id) ==
  LET l == loadComparisons(im, ls)
      index == FindIndex(l.returned, comparisonId)
  IN IF index # 0
     THEN saveComparisons(im, l.storage,
            [l.returned EXCEPT ![index].sensors = PushSensor(@, NewSensor(sensor, id))])
     ELSE l.storage

\* removeSensorFromComparison(comparisonId, sensorId)
removeSensorFromComparison(im, ls, comparisonId, sensorId) ==
  LET l == loadComparisons(im, ls)
      index == FindIndex(l.returned, comparisonId)
  IN IF index # 0
     THEN saveComparisons(im, l.storage,
            [l.returned EXCEPT ![index].sensors =
                SelectSeq(@, LAMBDA s : Prop(s, "id") # sensorId)])
     ELSE l.storage

\* the identifiers a caller may pass: those in storage and one that names
\* nothing
KnownIds ==
  {Prop(localStorage.comparisons.value[k], "id") :
      k \in 1..Len(localStorage.comparisons.value)}
  \cup {"no-such-id"}

\* the id was found by the call: it names a comparison that the loader returns
Found(id) == FindIndex(loadComparisons(impl, localStorage).returned, id) # 0

\* useComparisons before its mount effect has run: useState([])
InitStore ==
  /\ impl \in Impls
  /\ \E item0 \in StoredItems, v \in Versions :
       /\ impl = "plain" => v = "null"
       /\ localStorage = [comparisons |-> item0, version |-> v]
  /\ comparisons = <<>>
  /\ uuid = 0
  /\ lastCall = "none"
  /\ pc = "mount"
  /\ FilterIdle
  /\ CallerIdle
  /\ FetchIdle
  /\ QueryIdle

\* the mount effect and refresh: setComparisons(loadComparisons())
refresh ==
  /\ pc \in {"mount", "store"}
  /\ LET l == loadComparisons(impl, localStorage)
     IN /\ localStorage' = l.storage
        /\ comparisons' = l.returned
  /\ lastCall' = "loadComparisons"
  /\ pc' = "store"
  /\ UNCHANGED <<impl, uuid>>
  /\ UNCHANGED <<readings, stationName, i, validReadings, outliers>>
  /\ UNCHANGED <<callerVars, fetchVars, queryVars>>

\* a callback of useComparisons has called the store and then refresh()
Refreshed(ls) ==
  LET l == loadComparisons(impl, ls)
  IN /\ localStorage' = l.storage
     /\ comparisons' = l.returned

\* create: addComparison(name); refresh()
create(name, now) ==
  /\ pc = "store"
  /\ uuid < MaxUuid
  /\ Refreshed(addComparison(impl, localStorage, name, RandomUUID(uuid + 1), now))
  /\ lastCall' = "addComparison"
  /\ uuid' = uuid + 1
  /\ UNCHANGED <<impl, pc>>
  /\ UNCHANGED <<readings, stationName, i, validReadings, outliers>>
  /\ UNCHANGED <<callerVars, fetchVars, queryVars>>

\* update: updateComparison(id, updates); refresh()
update(id, updates) ==
  /\ pc = "store"
  /\ Refreshed(updateComparison(impl, localStorage, id, updates))
  /\ lastCall' = "updateComparison"
  /\ UNCHANGED <<impl, uuid, pc>>
  /\ UNCHANGED <<readings, stationName, i, validReadings, outliers>>
  /\ UNCHANGED <<callerVars, fetchVars, queryVars>>

\* remove: deleteComparison(id); refresh()
remove(id) ==
  /\ pc = "store"
  /\ Refreshed(deleteComparison(impl, localStorage, id))
  /\ lastCall' = "deleteComparison"
  /\ UNCHANGED <<impl, uuid, pc>>
  /\ UNCHANGED <<readings, stationName, i, validReadings, outliers>>
  /\ UNCHANGED <<callerVars, fetchVars, queryVars>>

\* addSensor: addSensorToComparison(comparisonId, sensor); refresh()
addSensor(comparisonId, sensor) ==
  /\ pc = "store"
  /\ Found(comparisonId) => uuid < MaxUuid
  /\ Refreshed(addSensorToComparison(impl, localStorage, comparisonId, sensor,
                                     RandomUUID(uuid + 1)))
  /\ lastCall' = "addSensorToComparison"
  /\ uuid' = IF Found(comparisonId) THEN uuid + 1 ELSE uuid
  /\ UNCHANGED <<impl, pc>>
  /\ UNCHANGED <<readings, stationName, i, validReadings, outliers>>
  /\ UNCHANGED <<callerVars, fetchVars, queryVars>>

\* removeSensor: removeSensorFromComparison(comparisonId, sensorId); refresh()
removeSensor(comparisonId, sensorId) ==
  /\ pc = "store"
  /\ Refreshed(removeSensorFromComparison(impl, localStorage, comparisonId, sensorId))
  /\ lastCall' = "removeSensorFromComparison"
  /\ UNCHANGED <<impl, uuid, pc>>
  /\ UNCHANGED <<readings, stationName, i, validReadings, outliers>>
  /\ UNCHANGED <<callerVars, fetchVars, queryVars>>

NextStore ==
  \/ refresh
  \/ \E now \in DateNows : create("New", now)
  \/ \E id \in KnownIds, updates \in Updates : update(id, updates)
  \/ \E id \in KnownIds : remove(id)
  \/ \E id \in KnownIds, sensor \in SensorInputs : addSensor(id, sensor)
  \/ \E id \in KnownIds, sensorId \in {"s-1", RandomUUID(uuid)} :
       removeSensor(id, sensorId)

SpecStore == InitStore /\ [][NextStore]_vars

\* ---- useMultipleSensorReadings: the batches of window queries -------------
\* const batchSize = 20
batchSize == 20

\* the sensor types parseSensorReadings knows
sensorTypes == {"temp", "humidity", "pm1", "pm25", "pm10", "air_quality"}

\* parseFloat on the tag values that occur: a leading number is parsed, a
\* text without one gives NaN
ParseFloat(text) ==
  CASE text = "12"  -> [nan |-> FALSE, num |-> 12]
    [] text = "7px" -> [nan |-> FALSE, num |-> 7]
    [] text = "21"  -> [nan |-> FALSE, num |-> 21]
    [] OTHER        -> [nan |-> TRUE, num |-> 0]

\* a NostrEvent, as far as the hook reads it
Event(kind, pubkey, created_at, tags) ==
  [kind |-> kind, pubkey |-> pubkey, created_at |-> created_at, tags |-> tags]

WeatherTag == <<"t", "weather">>

\* the tags a station publishes: [type, value, model], the model optional
StationTags(pubkey) ==
  IF pubkey = "pk1"
    THEN << WeatherTag, <<"pm1", "12", "PMS5003">>, <<"pm25", "7px", "PMS5003">>,
            <<"pm10", "abc", "PMS5003">>, <<"pm25", "21", "PMS5003">> >>
    ELSE << WeatherTag, <<"temp", "21">>, <<"humidity", "">> >>

\* const [tag, value, model] of event.tags: a missing element is undefined
TagValue(tag) == IF Len(tag) >= 2 THEN tag[2] ELSE "undefined"

TagModel(tag) == IF Len(tag) >= 3 THEN tag[3] ELSE "undefined"

\* event.kind === 4223 and a ['t', 'weather'] tag
validateSensorReadingEvent(event) ==
  /\ event.kind = 4223
  /\ \E k \in 1..Len(event.tags) :
       event.tags[k][1] = "t" /\ TagValue(event.tags[k]) = "weather"

\* sensorTypes.includes(tag) && value, and parseFloat(value) is a number
IsReadingTag(tag) ==
  /\ tag[1] \in sensorTypes
  /\ Truthy(TagValue(tag))
  /\ ~ParseFloat(TagValue(tag)).nan

\* parseSensorReadings: one reading per tag that holds a sensor value
parseSensorReadings(event) ==
  LET kept == SelectSeq(event.tags, IsReadingTag)
  IN  [k \in 1..Len(kept) |->
         [timestamp |-> event.created_at,
          sensorType |-> kept[k][1],
          value |-> ParseFloat(TagValue(kept[k])).num,
          model |-> OrElse(TagModel(kept[k]), "unknown"),
          event |-> event]]

\* windowEvents.filter(validateSensorReadingEvent).flatMap(parseSensorReadings)
RECURSIVE WindowReadings(_)
WindowReadings(windowEvents) ==
  IF windowEvents = <<>>
    THEN <<>>
    ELSE (IF validateSensorReadingEvent(Head(windowEvents))
            THEN parseSensorReadings(Head(windowEvents))
            ELSE <<>>) \o WindowReadings(Tail(windowEvents))

\* the condition of find and of the grouping filter
Matches(reading, sensor) ==
  /\ reading.event.pubkey = sensor.pubkey
  /\ reading.sensorType = sensor.sensorType
  /\ reading.model = sensor.sensorModel

\* [...new Set(sensors.map(s => s.pubkey))]
Pubkeys(ss) ==
  LET first == SelectSeq([k \in 1..Len(ss) |-> k],
                 LAMBDA k : \A j \in 1..(k - 1) : ss[j].pubkey # ss[k].pubkey)
  IN  [k \in 1..Len(first) |-> ss[first[k]].pubkey]

\* How the relay answers the filter of a window. "silent" has no events;
\* "inclusive" has, per author, an event at each end of the window (since
\* and until are inclusive), newest first; "lax" ignores the filter: events
\* of another kind, without the weather tag and of an author nobody asked
\* for, and the later the window the older the event of the asked author.
Relays == {"silent", "inclusive", "lax"}

RECURSIVE Query(_, _, _)
Query(r, authors, window) ==
  IF authors = <<>> \/ r = "silent"
    THEN <<>>
    ELSE LET p == Head(authors)
         IN (IF r = "inclusive"
               THEN << Event(4223, p, window.end, StationTags(p)),
                       Event(4223, p, window.start, StationTags(p)) >>
               ELSE << Event(1, p, window.start, StationTags(p)),
                       Event(4223, p, window.start, Tail(StationTags(p))),
                       Event(4223, "pk9", window.start, StationTags(p)),
                       Event(4223, p, since + (endTime - window.end),
                             StationTags(p)) >>)
            \o Query(r, Tail(authors), window)

\* timeWindows.slice(i, i + batchSize), all of the rest
SliceRest(ws, k) == SubSeq(ws, k + 1, Len(ws))

\* timeWindows.slice(i, i + batchSize)
Slice(ws, k) == SubSeq(ws, k + 1, Min(k + batchSize, Len(ws)))

\* windowReadings.find(...) for every sensor: the readings pushed for a window
RECURSIVE Sampled(_, _)
Sampled(windowReadings, ss) ==
  IF ss = <<>>
    THEN <<>>
    ELSE LET found == SelectSeq(windowReadings,
                        LAMBDA reading : Matches(reading, Head(ss)))
         IN  (IF Len(found) = 0 THEN <<>> ELSE <<found[1]>>)
             \o Sampled(windowReadings, Tail(ss))

\* (a, b) => b.timestamp - a.timestamp
CompareDescending(a, b) == b.timestamp - a.timestamp

\* (a, b) => a.timestamp - b.timestamp
Compare(a, b) == a.timestamp - b.timestamp

\* Array.prototype.sort is stable: a reading comes after the readings that
\* compare smaller, and after the earlier ones that compare equal
Sort(rs) ==
  LET place == [n \in 1..Len(rs) |->
                  Cardinality({j \in 1..Len(rs) : Compare(rs[j], rs[n]) < 0}) +
                  Cardinality({j \in 1..(n - 1) : Compare(rs[j], rs[n]) = 0}) + 1]
               \o <<>>
  IN  [k \in 1..Len(rs) |-> rs[CHOOSE n \in 1..Len(rs) : place[n] = k]]

\* sensors.map(sensor => ({ sensor, readings: filter(...).sort(...) }))
Grouped(ss, sampled) ==
  [k \in 1..Len(ss) |->
     LET own == SelectSeq(sampled, LAMBDA reading : Matches(reading, ss[k]))
     IN  [sensor |-> ss[k], readings |-> Sort(own)]]

\* ComparisonView: comparison.sensors.flatMap(s => s.sensorTypes.map(type => ...))
RECURSIVE SensorsOf(_)
SensorsOf(selections) ==
  IF selections = <<>>
    THEN <<>>
    ELSE LET s == Head(selections)
         IN  [k \in 1..Len(s.sensorTypes) |->
                [pubkey |-> s.stationPubkey,
                 sensorType |-> s.sensorTypes[k],
                 sensorModel |-> s.sensorModel]]
             \o SensorsOf(Tail(selections))

\* the sensors of a comparison: selections of the Add Sensor dialog, which
\* offers no station and model twice
Selections ==
  { <<a>> : a \in SensorInputs } \cup
  { <<a, b>> : <<a, b>> \in { q \in SensorInputs \X SensorInputs : q[1] # q[2] } }

\* the lengths of the range, in seconds: those of TIME_RANGES, and lengths
\* around one interval, one batch and the change of interval
RangeSeconds ==
  { TIME_RANGES[r].seconds : r \in DOMAIN TIME_RANGES } \cup
  {1, 30, 31, 600, 601, 7200, 7230}

\* enabled: sensors.length > 0; since and until as ComparisonView computes
\* them, at one of the times of Nows
InitQuery ==
  /\ \E len \in RangeSeconds, now \in {n \in Nows : \A m \in Nows : m <= n} :
       /\ since = now - len
       /\ endTime = now
  /\ intervalSeconds = 0
  /\ timestamp = 0
  /\ timeWindows = <<>>
  /\ sensors \in { SensorsOf(sel) : sel \in Selections }
  /\ relay \in Relays
  /\ batchIndex = 0
  /\ inFlight = 0
  /\ windowIndex = 0
  /\ sampledReadings = <<>>
  /\ grouped = <<>>
  /\ pc = "fetch"
  /\ FilterIdle
  /\ CallerIdle
  /\ StoreIdle

\* batch.map(window => relay.query(...)): the queries of a batch are started
StartBatch ==
  /\ pc = "built"
  /\ batchIndex < Len(timeWindows)
  /\ inFlight' = inFlight + Len(Slice(timeWindows, batchIndex))
  /\ pc' = "await"
  /\ UNCHANGED <<sensors, relay, batchIndex, windowIndex, sampledReadings, grouped>>
  /\ UNCHANGED <<fetchVars, readings, stationName, i, validReadings, outliers>>
  /\ UNCHANGED <<callerVars, storeVars>>

\* a query of the batch resolves
ResolveQuery ==
  /\ pc = "await"
  /\ inFlight > 0
  /\ inFlight' = inFlight - 1
  /\ UNCHANGED <<sensors, relay, batchIndex, windowIndex, sampledReadings, grouped>>
  /\ UNCHANGED <<fetchVars, readings, stationName, i, validReadings, outliers>>
  /\ UNCHANGED <<pc, callerVars, storeVars>>

\* a query of the batch rejects (an error of the relay, the signal aborts):
\* Promise.all rejects, queryFn throws, and retry is false
QueryFails ==
  /\ pc = "await"
  /\ inFlight > 0
  /\ inFlight' = inFlight - 1
  /\ pc' = "failed"
  /\ UNCHANGED <<sensors, relay, batchIndex, windowIndex, sampledReadings, grouped>>
  /\ UNCHANGED <<fetchVars, readings, stationName, i, validReadings, outliers>>
  /\ UNCHANGED <<callerVars, storeVars>>

\* await Promise.all(batchPromises) returns
BatchResolved ==
  /\ pc = "await"
  /\ inFlight = 0
  /\ windowIndex' = 0
  /\ pc' = "process"
  /\ UNCHANGED <<sensors, relay, batchIndex, inFlight, sampledReadings, grouped>>
  /\ UNCHANGED <<fetchVars, readings, stationName, i, validReadings, outliers>>
  /\ UNCHANGED <<callerVars, storeVars>>

\* batchResults.forEach: one reading per sensor is taken from a window
ProcessWindow ==
  /\ pc = "process"
  /\ windowIndex < Len(Slice(timeWindows, batchIndex))
  /\ LET window == Slice(timeWindows, batchIndex)[windowIndex + 1]
         windowEvents == Query(relay, Pubkeys(sensors), window)
     IN  sampledReadings' =
           sampledReadings \o Sampled(WindowReadings(windowEvents), sensors)
  /\ windowIndex' = windowIndex + 1
  /\ UNCHANGED <<sensors, relay, batchIndex, inFlight, grouped>>
  /\ UNCHANGED <<fetchVars, readings, stationName, i, validReadings, outliers>>
  /\ UNCHANGED <<pc, callerVars, storeVars>>

\* i += batchSize
NextBatch ==
  /\ pc = "process"
  /\ ~(windowIndex < Len(Slice(timeWindows, batchIndex)))
  /\ batchIndex' = batchIndex + batchSize
  /\ pc' = "built"
  /\ UNCHANGED <<sensors, relay, inFlight, windowIndex, sampledReadings, grouped>>
  /\ UNCHANGED <<fetchVars, readings, stationName, i, validReadings, outliers>>
  /\ UNCHANGED <<callerVars, storeVars>>

\* the batch loop ends: the readings are grouped by sensor and returned
Group ==
  /\ pc = "built"
  /\ ~(batchIndex < Len(timeWindows))
  /\ grouped' = Grouped(sensors, sampledReadings)
  /\ pc' = "fetched"
  /\ UNCHANGED <<sensors, relay, batchIndex, inFlight, windowIndex, sampledReadings>>
  /\ UNCHANGED <<fetchVars, readings, stationName, i, validReadings, outliers>>
  /\ UNCHANGED <<callerVars, storeVars>>

NextQuery ==
  \/ ChooseInterval
  \/ BuildWindow
  \/ WindowsBuilt
  \/ StartBatch
  \/ ResolveQuery
  \/ QueryFails
  \/ BatchResolved
  \/ ProcessWindow
  \/ NextBatch
  \/ Group

SpecQuery == InitQuery /\ [][NextQuery]_vars

\* ---- vocabulary of the properties ----------------------------------------
\* reading k of the input (1-based) is held by validReadings
Accepted(k) == \E j \in 1..Len(validReadings) : validReadings[j].obj = k

\* positions of the processed readings that validReadings does not hold
RejectedIdx == SelectSeq([k \in 1..i |-> k], LAMBDA k : ~Accepted(k))

\* |c - p| / |p| * 100 > t, a division by zero of a nonzero change counted
\* as an infinite change
PctExceeds(c, p, t) == IF p = 0 THEN c # 0 ELSE Abs(c - p) * 100 > t * Abs(p)

\* |c - p| / |p| * 100 = t
PctEquals(c, p, t) == p # 0 /\ Abs(c - p) * 100 = t * Abs(p)

\* one iteration of the loop is about to run
InLoop == pc = "loop" /\ i < Len(readings)

C2_LengthInvariant ==
  /\ Len(validReadings) + Len(outliers) = i
  /\ pc = "done" =>
       /\ Len(validReadings) + Len(outliers) = Len(readings)
       /\ \A k \in 1..Len(readings) :
            Cardinality({j \in 1..Len(validReadings) :
                           validReadings[j].obj = k}) =< 1
       /\ Len(outliers) = Len(RejectedIdx)

C2_Witness ==
  /\ pc = "done"
  /\ Len(readings) >= 3
  /\ Len(outliers) >= 1
  /\ Len(validReadings) >= 2

\* C3: once the pass has started on a non-empty input, the first reading is
\* the first element of validReadings, whatever its value, and the outlier
\* records all stem from later readings.
C3_FirstAccepted ==
  (pc # "start" /\ Len(readings) > 0) =>
     /\ Len(validReadings) >= 1
     /\ validReadings[1] = readings[1]
     /\ Len(outliers) =< i - 1
     /\ \A j \in 1..Len(RejectedIdx) : RejectedIdx[j] >= 2

C3_Witness ==
  /\ pc = "done"
  /\ Len(readings) >= 2
  /\ readings[1].value =< 0
  /\ Len(outliers) >= 1
  /\ validReadings[1] = readings[1]

C5_StrictThreshold ==
  [][InLoop =>
       LET c == readings[i + 1]
           p == readings[i]
       IN /\ PctEquals(c.value, p.value, Threshold) =>
               (validReadings' = Append(validReadings, c) /\ outliers' = outliers)
          /\ PctExceeds(c.value, p.value, Threshold) =>
               (validReadings' = validReadings /\ Len(outliers') = Len(outliers) + 1)]_vars

\* a reading at exactly 300 percent was accepted and one above was rejected
C5_Witness ==
  /\ pc = "done"
  /\ \E k \in 2..i :
       PctEquals(readings[k].value, readings[k - 1].value, Threshold) /\ Accepted(k)
  /\ \E k \in 2..i :
       PctExceeds(readings[k].value, readings[k - 1].value, Threshold) /\ ~Accepted(k)

\* C6: an iteration that compares a nonzero reading against the value 0
\* rejects it, and the record holds an infinite percent change.
C6_ZeroReferenceRejects ==
  [][(InLoop /\ readings[i].value = 0 /\ readings[i + 1].value # 0) =>
       /\ validReadings' = validReadings
       /\ Len(outliers') = Len(outliers) + 1
       /\ outliers'[Len(outliers')].value = readings[i + 1].value
       /\ outliers'[Len(outliers')].percentChange.den = 0
       /\ outliers'[Len(outliers')].percentChange.num > 0]_vars

C6_Witness ==
  /\ pc = "done"
  /\ \E k \in 2..i :
       readings[k - 1].value = 0 /\ readings[k].value # 0 /\ ~Accepted(k)

\* C7: a reading of value 0 compared against the value 0 is accepted, and
\* an all-zero input comes back entirely valid with no outlier record.
C7_ZeroOverZeroAccepted ==
  /\ \A k \in 2..i :
       (readings[k - 1].value = 0 /\ readings[k].value = 0) => Accepted(k)
  /\ (pc = "done" /\ \A k \in 1..Len(readings) : readings[k].value = 0) =>
       (validReadings = readings /\ outliers = <<>>)

C7_Witness ==
  /\ pc = "done"
  /\ Len(readings) >= 3
  /\ \A k \in 1..Len(readings) : readings[k].value = 0
  /\ validReadings = readings

\* the result of a two-reading input <<a, b>> with a nonzero
TwoReadings == pc = "done" /\ Len(readings) = 2 /\ readings[1].value # 0

\* C8 (as stated): b is rejected exactly when |b - a| / a * 100 > 300 with
\* the divisor a itself, and the record stores that quantity.
C8_SignedDivisor ==
  TwoReadings =>
    LET a == readings[1].value
        b == readings[2].value
        q == [num |-> Abs(b - a) * 100, den |-> a]
    IN /\ (Len(outliers) = 1) <=>
            (IF q.den > 0 THEN q.num > Threshold * q.den
                          ELSE q.num < Threshold * q.den)
       /\ Len(outliers) = 1 =>
            outliers[1].percentChange.num * q.den =
               q.num * outliers[1].percentChange.den

\* C8 (amended): b is rejected exactly when |b - a| / |a| * 100 > 300, the
\* absolute value being taken of the whole quotient, and the record stores
\* that non-negative quantity.
C8_AbsoluteQuotient ==
  TwoReadings =>
    LET a == readings[1].value
        b == readings[2].value
    IN /\ (Len(outliers) = 1) <=> (Abs(b - a) * 100 > Threshold * Abs(a))
       /\ (Len(outliers) = 0) <=> (validReadings = readings)
       /\ Len(outliers) = 1 =>
            /\ outliers[1].percentChange.den > 0
            /\ outliers[1].percentChange.num * Abs(a) =
                 Abs(b - a) * 100 * outliers[1].percentChange.den

\* a reading rejected against a negative first reading
C8_Witness ==
  /\ TwoReadings
  /\ readings[1].value < 0
  /\ Len(outliers) = 1

\* C9: two readings that differ from the same nonzero value x by +d and by
\* -d, each compared against x, are both accepted or both rejected.
C9_Symmetry ==
  \A k \in 2..i, m \in 2..i :
    ( /\ readings[k - 1].value # 0
      /\ readings[m - 1].value = readings[k - 1].value
      /\ readings[k].value - readings[k - 1].value =
           readings[m - 1].value - readings[m].value )
    => (Accepted(k) <=> Accepted(m))

\* an upward and a downward change of the same size, both rejected
C9_Witness ==
  /\ pc = "done"
  /\ Len(readings) = 4
  /\ readings[1].value = readings[3].value
  /\ readings[2].value > readings[1].value
  /\ readings[2].value - readings[1].value = readings[3].value - readings[4].value
  /\ ~Accepted(2)
  /\ ~Accepted(4)

\* C10: validReadings holds input readings at increasing input positions,
\* and the outlier records follow the input order of the rejected readings.
C10_OrderPreserved ==
  /\ \A j \in 1..Len(validReadings) :
       /\ validReadings[j].obj \in 1..Len(readings)
       /\ validReadings[j] = readings[validReadings[j].obj]
  /\ \A j \in 1..(Len(validReadings) - 1) :
       validReadings[j].obj < validReadings[j + 1].obj
  /\ Len(outliers) = Len(RejectedIdx)
  /\ \A j \in 1..Len(outliers) :
       /\ outliers[j].timestamp = readings[RejectedIdx[j]].timestamp
       /\ outliers[j].value = readings[RejectedIdx[j]].value
       /\ outliers[j].sensorType = readings[RejectedIdx[j]].sensorType

\* two distinguishable outlier records behind the accepted first reading
C10_Witness ==
  /\ pc = "done"
  /\ Len(outliers) >= 2
  /\ outliers[1].value # outliers[2].value
  /\ Len(validReadings) >= 1

\* the fan-out has returned
Returned == pc = "returned"

\* C11: an empty input returns an empty validReadings and an empty
\* outliers list, whatever the station label.
C11_EmptyInput ==
  (pc = "done" /\ Len(readings) = 0) => (validReadings = <<>> /\ outliers = <<>>)

C11_Witness ==
  /\ pc = "done"
  /\ readings = <<>>
  /\ stationName = "Unknown"
  /\ validReadings = <<>>

\* the input values 10, 11, 50, 12 at the timestamps 0..3 have been filtered
Scenario ==
  /\ pc = "done"
  /\ Len(readings) = 4
  /\ [k \in 1..4 |-> readings[k].value] = <<10, 11, 50, 12>>
  /\ [k \in 1..4 |-> readings[k].timestamp] = <<0, 1, 2, 3>>

\* C12: for the values 10, 11, 50, 12 the valid readings are 10, 11, 12 and
\* the single outlier record has value 50, previousValue 11 and a percent
\* change between 354 and 355.
C12_ConcreteScenario ==
  Scenario =>
    /\ [j \in 1..Len(validReadings) |-> validReadings[j].value] = <<10, 11, 12>>
    /\ Len(outliers) = 1
    /\ outliers[1].value = 50
    /\ outliers[1].previousValue = 11
    /\ outliers[1].percentChange.den > 0
    /\ outliers[1].percentChange.num > 354 * outliers[1].percentChange.den
    /\ outliers[1].percentChange.num < 355 * outliers[1].percentChange.den

C12_Witness == Scenario /\ Len(outliers) = 1 /\ Len(validReadings) = 3

\* C13: every call of filterOutliers returns and the fan-out returns, for
\* empty entries, zero and negative values, sorted or unsorted timestamps
\* and every label map.
C13_Total ==
  /\ <>Returned
  /\ (pc = "start") ~> (pc = "done")

\* a fan-out over an empty entry and an entry with a zero and a negative
\* value in descending timestamps has returned
C13_Witness ==
  /\ Returned
  /\ Len(data) = 2
  /\ \E k \in 1..2 : data[k].readings = <<>>
  /\ \E k \in 1..2 :
       /\ Len(data[k].readings) = 3
       /\ data[k].readings[1].value = 0
       /\ data[k].readings[3].value < 0
       /\ data[k].readings[1].timestamp > data[k].readings[3].timestamp

\* C14: no step changes the entry list, the label map or, during a call of
\* filterOutliers, the reading sequence it was called with.
C14_NoSideEffects ==
  [][/\ data' = data
     /\ stationNames' = stationNames
     /\ (pc \in {"start", "loop"}) =>
          (readings' = readings /\ readings = data[item + 1].readings)]_vars

C14_Witness ==
  /\ Returned
  /\ Len(data) = 2
  /\ Len(allOutliers) >= 1
  /\ Len(filteredData) = 2

\* C15: the lists a call produces for an entry are those of filterOutliers
\* on that entry's readings alone, and so are the readings of every entry
\* of filteredData, whatever the other entries are.
C15_Isolation ==
  /\ (pc = "done") =>
        [validReadings |-> validReadings, outliers |-> outliers] =
           filterOutliers(data[item + 1].readings, StationNameOf(data[item + 1]))
  /\ \A k \in 1..Len(filteredData) :
        filteredData[k].readings =
           filterOutliers(data[k].readings, StationNameOf(data[k])).validReadings

\* an entry with a zero followed by a nonzero reading, then an outlier-free
\* entry that comes back whole
C15_Witness ==
  /\ Returned
  /\ Len(data) = 2
  /\ Len(data[1].readings) = 2
  /\ data[1].readings[1].value = 0
  /\ data[1].readings[2].value # 0
  /\ Len(filteredData[1].readings) = 1
  /\ Len(data[2].readings) = 2
  /\ filteredData[2].readings = data[2].readings

RECURSIVE OutliersOfFirst(_)
\* the outlier lists of the first n entries, each filtered alone, in order
OutliersOfFirst(n) ==
  IF n = 0 THEN <<>>
  ELSE OutliersOfFirst(n - 1) \o
         filterOutliers(data[n].readings, StationNameOf(data[n])).outliers

\* C16: allOutliers is the concatenation, in entry order, of the outlier
\* lists of the entries collected so far, each in the order of its readings.
C16_Concatenation ==
  /\ Len(filteredData) =< Len(data)
  /\ allOutliers = OutliersOfFirst(Len(filteredData))
  /\ Returned => allOutliers = OutliersOfFirst(Len(data))

\* two entries have contributed outliers, the first of them two
C16_Witness ==
  /\ Returned
  /\ Len(data) = 2
  /\ Len(filterOutliers(data[1].readings, "Unknown").outliers) = 2
  /\ Len(filterOutliers(data[2].readings, "Unknown").outliers) = 1
  /\ data[1].sensor # data[2].sensor
  /\ Len(allOutliers) = 3

\* the entry's composite key is missing from the label map
KeyAbsent(sensor) == SensorKey(sensor) \notin DOMAIN stationNames

\* C17: for an entry whose key is absent from the label map the call runs
\* with the label "Unknown", every record it emits carries it, and the
\* readings accepted are those accepted under any other label.
C17_UnknownLabel ==
  /\ (pc \in {"start", "loop", "done"} /\ KeyAbsent(data[item + 1].sensor)) =>
        /\ stationName = "Unknown"
        /\ \A j \in 1..Len(outliers) : outliers[j].stationName = "Unknown"
        /\ pc = "done" =>
             validReadings = filterOutliers(readings, "#1 - temp").validReadings
  /\ \A j \in 1..Len(allOutliers) :
        (\E id \in SensorIds :
            /\ id.sensorType = allOutliers[j].sensorType
            /\ KeyAbsent(id))
        => allOutliers[j].stationName = "Unknown"

\* a labelled entry and an entry without label have both produced records
C17_Witness ==
  /\ Returned
  /\ "pk1-temp-DHT11" \in DOMAIN stationNames
  /\ "pk2-humidity-BME280" \notin DOMAIN stationNames
  /\ \E j \in 1..Len(allOutliers) :
       allOutliers[j].sensorType = "humidity" /\ allOutliers[j].stationName = "Unknown"
  /\ \E j \in 1..Len(allOutliers) : allOutliers[j].stationName = "#1 - temp"

\* C18: the record of a rejected reading carries that reading's timestamp,
\* value, sensorType and model, the label of the call and a percent change
\* above 300, and has no other field than these and previousValue.
C18_RecordFields ==
  /\ Len(outliers) = Len(RejectedIdx)
  /\ \A j \in 1..Len(outliers) :
       LET r == readings[RejectedIdx[j]]
           o == outliers[j]
       IN /\ DOMAIN o = {"timestamp", "value", "previousValue", "percentChange",
                         "sensorType", "sensorModel", "stationName"}
          /\ o.timestamp = r.timestamp
          /\ o.value = r.value
          /\ o.sensorType = r.sensorType
          /\ o.sensorModel = r.model
          /\ o.stationName = stationName
          /\ \/ o.percentChange.den = 0 /\ o.percentChange.num > 0
             \/ o.percentChange.den > 0 /\
                  o.percentChange.num > Threshold * o.percentChange.den

\* two records, one of a finite and one of an infinite change
C18_Witness ==
  /\ pc = "done"
  /\ Len(outliers) = 2
  /\ \E j \in 1..2 : outliers[j].percentChange.den > 0
  /\ \E j \in 1..2 : outliers[j].percentChange.den = 0
  /\ outliers[1].timestamp # outliers[2].timestamp

\* C19: the windows of the Last Hour range are 1 minute long and those of
\* the Last 24 Hours range 15 minutes, as the README and the descriptions
\* of TIME_RANGES say.
C19_DescribedIntervals ==
  (pc \in {"windows", "built"}) =>
     \A r \in DOMAIN TIME_RANGES :
        (endTime - since = TIME_RANGES[r].seconds) =>
           intervalSeconds = TIME_RANGES[r].described

\* C20: the reading that follows an accepted reading is classified by its
\* percent change relative to that accepted reading, which is then the last
\* element of validReadings.
C20_AcceptedBecomesReference ==
  [][(InLoop /\ Accepted(i)) =>
       /\ validReadings[Len(validReadings)].obj = i
       /\ (outliers' # outliers) <=>
             PctExceeds(readings[i + 1].value,
                        validReadings[Len(validReadings)].value, Threshold)
       /\ (validReadings' # validReadings) <=>
             ~PctExceeds(readings[i + 1].value,
                         validReadings[Len(validReadings)].value, Threshold)]_vars

\* an accepted reading is the reference that rejects the next one, which
\* the first reading would not have rejected
C20_Witness ==
  /\ pc = "done"
  /\ Len(readings) >= 3
  /\ Accepted(2)
  /\ ~Accepted(3)
  /\ ~PctExceeds(readings[3].value, readings[1].value, Threshold)

\* the third call of the fan-out over <<e, f, e>> has returned
ThirdCallDone == pc = "done" /\ item = 2 /\ Len(filteredData) = 2

\* C21: a call of filterOutliers made after two other calls, with the
\* readings and the label of the first of them, returns the valid readings
\* and the outlier records that the first call returned, whatever the call
\* in between was given.
C21_NoRetainedState ==
  ThirdCallDone =>
    LET second == Len(data[2].readings) - Len(filteredData[2].readings)
        first == Len(allOutliers) - second
    IN /\ readings = data[1].readings
       /\ validReadings = filteredData[1].readings
       /\ first = Len(outliers)
       /\ SubSeq(allOutliers, 1, first) = outliers

\* the repeated call has rejected readings and the call in between was
\* given other readings and has rejected one too
C21_Witness ==
  /\ ThirdCallDone
  /\ Len(outliers) = 2
  /\ data[2].readings # data[1].readings
  /\ Len(data[2].readings) > Len(filteredData[2].readings)
  /\ Len(validReadings) = 1

\* C22: filteredData holds one entry per entry processed, in input order,
\* with the sensor of that entry unchanged and its valid readings as
\* readings, also for an entry without readings and for one whose readings
\* after the first are all rejected; on return it has one entry per input
\* entry.
C22_OneEntryPerInput ==
  /\ Len(filteredData) = (IF pc = "returned" THEN Len(data) ELSE item)
  /\ \A k \in 1..Len(filteredData) :
       /\ DOMAIN filteredData[k] = {"sensor", "readings"}
       /\ filteredData[k].sensor = data[k].sensor
       /\ IF data[k].readings = <<>> THEN filteredData[k].readings = <<>>
          ELSE /\ Len(filteredData[k].readings) >= 1
               /\ filteredData[k].readings[1] = data[k].readings[1]
               /\ \A j \in 2..Len(data[k].readings) :
                    (\E m \in 1..Len(filteredData[k].readings) :
                        filteredData[k].readings[m] = data[k].readings[j])
                    <=> ~PctExceeds(data[k].readings[j].value,
                                    data[k].readings[j - 1].value, Threshold)
               /\ Len(filteredData[k].readings) =
                    1 + Cardinality({j \in 2..Len(data[k].readings) :
                          ~PctExceeds(data[k].readings[j].value,
                                      data[k].readings[j - 1].value, Threshold)})

\* an entry whose readings after the first are all rejected, then an entry
\* without readings: both are present
C22_Witness ==
  /\ Returned
  /\ Len(data) = 2
  /\ Len(data[1].readings) = 3
  /\ Len(filteredData[1].readings) = 1
  /\ data[2].readings = <<>>
  /\ Len(filteredData) = 2
  /\ filteredData[2].readings = <<>>
  /\ filteredData[1].sensor # filteredData[2].sensor

\* the input holds no negative value
NonNegative == \A k \in 1..Len(readings) : readings[k].value >= 0

\* C24: in an input without negative values a reading that is lower than or
\* equal to the positive reading it is compared against has a percent
\* change of at most 100 and is accepted, and every rejected reading is
\* higher than the value it was compared against.
C24_OnlyIncreasesRejected ==
  NonNegative =>
    /\ \A k \in 2..i :
         (readings[k - 1].value > 0 /\ readings[k].value =< readings[k - 1].value) =>
            /\ Accepted(k)
            /\ ~GreaterThan(PercentChange(readings[k], readings[k - 1]), 100)
    /\ \A j \in 1..Len(outliers) : outliers[j].value > outliers[j].previousValue

\* a fall to zero from a positive value is accepted and a rise is rejected
C24_Witness ==
  /\ pc = "done"
  /\ NonNegative
  /\ \E k \in 2..i :
       readings[k - 1].value > 1 /\ readings[k].value = 0 /\ Accepted(k)
  /\ \E k \in 2..i : readings[k].value > readings[k - 1].value /\ ~Accepted(k)

\* the comparison list in storage; none when the text is absent or does not
\* parse to an array
StoredList(ls) == IF ls.comparisons.tag = "array" THEN ls.comparisons.value ELSE <<>>

\* the comparisons other than the one named id
Others(cs, id) == SelectSeq(cs, LAMBDA c : Prop(c, "id") # id)

RECURSIVE IsSubSeq(_, _)
\* the elements of a occur in b, in the order of a
IsSubSeq(a, b) ==
  IF a = <<>> THEN TRUE
  ELSE IF b = <<>> THEN FALSE
  ELSE IF Head(a) = Head(b) THEN IsSubSeq(Tail(a), Tail(b))
  ELSE IsSubSeq(a, Tail(b))

\* the step is a call of a mutating store function that targets id
Mutates(id) ==
  \/ id = RandomUUID(uuid + 1) /\ \E now \in DateNows : create("New", now)
  \/ \E updates \in Updates : update(id, updates)
  \/ remove(id)
  \/ \E sensor \in SensorInputs : addSensor(id, sensor)
  \/ \E sensorId \in {"s-1", RandomUUID(uuid)} : removeSensor(id, sensorId)

\* C25 (as stated): after a mutating store function every comparison of the
\* stored list other than the targeted one is still in the stored list,
\* unchanged and in the same relative order.
C25_FrameOfStored ==
  [][\A id \in KnownIds \cup {RandomUUID(uuid + 1)} :
       Mutates(id) =>
         IsSubSeq(Others(StoredList(localStorage), id), StoredList(localStorage'))]_vars

\* C25 (amended): a mutating store function either leaves localStorage as
\* it was or leaves, as the comparisons of the stored list other than the
\* targeted one, exactly those that loadComparisons returned before the
\* call, as returned and in the same order; so when loadComparisons
\* returned the stored list whole, the other comparisons of the stored
\* list are exactly those of before.
C25_FrameOfLoaded ==
  [][\A id \in KnownIds \cup {RandomUUID(uuid + 1)} :
       Mutates(id) =>
         /\ \/ localStorage' = localStorage
            \/ Others(StoredList(localStorage'), id) = Others(comparisons, id)
         /\ (comparisons = StoredList(localStorage)) =>
               Others(StoredList(localStorage'), id) =
                  Others(StoredList(localStorage), id)]_vars

\* a sensor was added to the second comparison and the first is stored as
\* it was
C25_Witness ==
  /\ lastCall = "addSensorToComparison"
  /\ Len(StoredList(localStorage)) = 2
  /\ StoredList(localStorage)[1] = StoredComparison("c-1", <<StoredSensor>>)
  /\ Len(StoredList(localStorage)[2].sensors) = 1

\* the versioned loader finds no current version or a text it cannot load
LoaderClears ==
  /\ impl = "versioned"
  /\ \/ localStorage.version # CURRENT_VERSION
     \/ localStorage.comparisons.tag \in {"garbage", "object"}

\* C26 (as stated): loadComparisons leaves the stored comparison list as it
\* was, in every storage state.
C26_LoadReadOnly ==
  [][refresh => localStorage'.comparisons = localStorage.comparisons]_vars

\* C26 (amended): loadComparisons of the unversioned store writes nothing in
\* any storage state; that of the versioned store writes nothing when the
\* version key is current and the stored text is absent or an array, and
\* otherwise removes the stored list and sets the version key to the
\* current version.
C26_LoadClearsOrKeeps ==
  [][refresh =>
       IF LoaderClears
       THEN /\ localStorage'.comparisons.tag = "absent"
            /\ localStorage'.version = CURRENT_VERSION
       ELSE localStorage' = localStorage]_vars

\* the versioned loader has returned fewer comparisons than are stored and
\* has left the stored list whole
C26_Witness ==
  /\ lastCall = "loadComparisons"
  /\ impl = "versioned"
  /\ Len(StoredList(localStorage)) = 2
  /\ Len(comparisons) = 1

\* C27: addSensorToComparison(c, s) on a comparison c that loadComparisons
\* returns is followed by a loadComparisons that returns as many
\* comparisons, c among them at its place, its sensors being the list
\* returned before with one element appended: s with an id that no sensor
\* returned before has.
C27_SensorAppended ==
  [][\A id \in KnownIds, sensor \in SensorInputs :
       (addSensor(id, sensor) /\ FindIndex(comparisons, id) # 0) =>
          LET k == FindIndex(comparisons, id)
              added == comparisons'[k].sensors[Len(comparisons'[k].sensors)]
          IN /\ Len(comparisons') = Len(comparisons)
             /\ FindIndex(comparisons', id) = k
             /\ Len(comparisons'[k].sensors) = Len(comparisons[k].sensors) + 1
             /\ SubSeq(comparisons'[k].sensors, 1, Len(comparisons[k].sensors)) =
                  comparisons[k].sensors
             /\ DOMAIN added = DOMAIN sensor \cup {"id"}
             /\ \A key \in DOMAIN sensor : added[key] = sensor[key]
             /\ \A m \in 1..Len(comparisons) :
                  \A j \in 1..Len(comparisons[m].sensors) :
                     Prop(comparisons[m].sensors[j], "id") # added.id]_vars

\* a comparison that held the stored sensor holds a second one behind it
C27_Witness ==
  /\ lastCall = "addSensorToComparison"
  /\ \E k \in 1..Len(comparisons) :
       /\ Len(comparisons[k].sensors) = 2
       /\ comparisons[k].sensors[1] = StoredSensor
       /\ comparisons[k].sensors[2].stationPubkey = "pk2"

\* the step is a call of updateComparison, addSensorToComparison or
\* removeSensorFromComparison with the id
CallsWithId(id) ==
  \/ \E updates \in Updates : update(id, updates)
  \/ \E sensor \in SensorInputs : addSensor(id, sensor)
  \/ \E sensorId \in {"s-1", RandomUUID(uuid)} : removeSensor(id, sensorId)

\* C28: updateComparison, addSensorToComparison and
\* removeSensorFromComparison called with an id that no comparison returned
\* by loadComparisons has leave localStorage as it was and hand out no id.
C28_UnknownIdNoWrite ==
  [][\A id \in KnownIds :
       (CallsWithId(id) /\ FindIndex(comparisons, id) = 0) =>
          /\ localStorage' = localStorage
          /\ comparisons' = comparisons
          /\ uuid' = uuid]_vars

\* a call has named a stored comparison that the loader does not return,
\* and the stored list still holds it
C28_Witness ==
  /\ lastCall \in {"updateComparison", "addSensorToComparison",
                   "removeSensorFromComparison"}
  /\ impl = "versioned"
  /\ Len(StoredList(localStorage)) = 2
  /\ Len(comparisons) = 1
  /\ uuid = 0

\* the number of sampled readings that are of a sensor
CountOf(sampled, sensor) ==
  Len(SelectSeq(sampled, LAMBDA reading : Matches(reading, sensor)))

\* the windows have been built
Built == pc \in {"built", "await", "process", "failed", "fetched"}

\* C23: every sequence that useMultipleSensorReadings groups for a sensor,
\* which ComparisonView hands unchanged to filterMultipleSensorOutliers,
\* holds only readings of that sensor's station, type and model, and its
\* timestamps are non-decreasing.
C23_GroupedSortedSingleSensor ==
  (pc = "fetched") =>
     /\ Len(grouped) = Len(sensors)
     /\ \A k \in 1..Len(grouped) :
          LET rs == grouped[k].readings
          IN  /\ grouped[k].sensor = sensors[k]
              /\ \A j \in 1..Len(rs) :
                   /\ rs[j].event.pubkey = sensors[k].pubkey
                   /\ rs[j].sensorType = sensors[k].sensorType
                   /\ rs[j].model = sensors[k].sensorModel
              /\ \A j \in 1..(Len(rs) - 1) : rs[j].timestamp <= rs[j + 1].timestamp

\* a fetch from the relay that ignores the filter has ended: the sampled
\* readings of a sensor were not in order of time, and readings of several
\* sensors were sampled
C23_Witness ==
  /\ pc = "fetched"
  /\ relay = "lax"
  /\ Len(sensors) = 3
  /\ \E k \in 1..Len(grouped) :
       /\ Len(grouped[k].readings) > batchSize
       /\ grouped[k].readings[1].timestamp < grouped[k].readings[2].timestamp
       /\ Len(grouped[k].readings) < Len(sampledReadings)
  /\ \E j \in 2..Len(sampledReadings) :
       /\ sampledReadings[j].sensorType = sampledReadings[1].sensorType
       /\ sampledReadings[j].timestamp < sampledReadings[1].timestamp

\* C29: never more than 20 queries are in flight, queries are started only
\* when none is in flight, and a fetch in which a query failed has returned
\* nothing and does nothing more.
C29_BatchesOfTwenty ==
  /\ [](inFlight <= 20)
  /\ [][inFlight' > inFlight => inFlight = 0]_vars
  /\ [](pc = "failed" => grouped = <<>>)
  /\ [][pc = "failed" => (pc' = "failed" /\ grouped' = <<>> /\ inFlight' <= inFlight)]_vars

\* a query of the second batch failed while others of it were in flight,
\* after the first batch had contributed readings
C29_Witness ==
  /\ pc = "failed"
  /\ batchIndex = batchSize
  /\ inFlight > 0
  /\ Len(sampledReadings) >= batchSize
  /\ grouped = <<>>

\* C30: for since < endTime the windows tile the range: the first starts at
\* since, each starts where the one before ends, each is non-empty and at
\* most intervalSeconds long, the last ends at endTime; and processing a
\* window adds at most one reading of each requested sensor.
C30_WindowsTile ==
  /\ []((Built /\ since < endTime) =>
          /\ Len(timeWindows) >= 1
          /\ timeWindows[1].start = since
          /\ timeWindows[Len(timeWindows)].end = endTime
          /\ \A k \in 1..(Len(timeWindows) - 1) :
               timeWindows[k + 1].start = timeWindows[k].end
          /\ \A k \in 1..Len(timeWindows) :
               /\ timeWindows[k].start < timeWindows[k].end
               /\ timeWindows[k].end - timeWindows[k].start <= intervalSeconds)
  /\ [][\A k \in 1..Len(sensors) :
          CountOf(sampledReadings', sensors[k]) <= CountOf(sampledReadings, sensors[k]) + 1]_vars

\* a fetch over more than one batch of windows, the last window shorter than
\* the interval, in which a sensor had two readings in every window and
\* contributed one for each
C30_Witness ==
  /\ pc = "fetched"
  /\ relay = "inclusive"
  /\ Len(timeWindows) > batchSize
  /\ LET last == timeWindows[Len(timeWindows)]
     IN  last.end - last.start < intervalSeconds
  /\ \E k \in 1..Len(sensors) :
       CountOf(sampledReadings, sensors[k]) = Len(timeWindows)

====
